---- MODULE Spec2Model ----
(***************************************************************************)
(* A model of scan_files.py: the file structure scanner.                   *)
(*                                                                         *)
(* A path below the scan root is the sequence of its parts (names); a      *)
(* string is a TLA+ string, taken apart with Len, SubSeq and \o the way    *)
(* the Python code takes it apart with len, slices, startswith, endswith   *)
(* and "in".  The file system below the root is a set of entries           *)
(* [parts, is_dir]; the output file is a sequence of lines.                *)
(***************************************************************************)
EXTENDS Integers, Sequences, FiniteSets, TLC

VARIABLES
    start_path,     \* args.dir: the scan root, as given on the command line
    output_rel,     \* args.output: its parts below the root, <<>> if it lies outside
    args_ignore,    \* args.ignore: the caller's additional patterns
    use_emoji,      \* args.emoji
    fs,             \* the entries below the root: [parts, is_dir]
    runs,           \* how many scans have completed
    out,            \* the content of the output file: a sequence of lines
    prev_out,       \* its content after the scan before the last
    listed          \* the entries the last scan wrote a line for, in order

vars == <<start_path, output_rel, args_ignore, use_emoji, fs, runs, out,
          prev_out, listed>>

(***************************************************************************)
(* Bounds of the model.                                                    *)
(***************************************************************************)
MaxDepth == 3
MaxRuns == 2

(***************************************************************************)
(* Strings.                                                                *)
(***************************************************************************)
\* The printable ASCII characters in code point order: 32 (space) to 95, and
\* 97 to 126.  Code point 96 cannot be written in a string of this language;
\* no name of the model holds it.
ASCII_32_95 ==
  " !\"#$%&'()*+,-./0123456789:;<=>?@ABCDEFGHIJKLMNOPQRSTUVWXYZ[\\]^_"

ASCII_97_126 == "abcdefghijklmnopqrstuvwxyz{|}~"

\* chr(n)
Chr(n) ==
  IF n <= 95 THEN SubSeq(ASCII_32_95, n - 31, n - 31)
  ELSE SubSeq(ASCII_97_126, n - 96, n - 96)

CodePoints == (32..95) \cup (97..126)

Chars == {Chr(n) : n \in CodePoints}

\* ord, as a table over the characters
OrdTable == [c \in Chars |-> CHOOSE n \in CodePoints : Chr(n) = c]

\* ord(c) of a one-character string
Ord(c) == OrdTable[c]

\* str.lower, as a table over the characters: A-Z (65..90) move up by 32
LowerTable ==
  [c \in Chars |-> IF OrdTable[c] \in 65..90 THEN Chr(OrdTable[c] + 32) ELSE c]

\* c.lower() of a one-character string
LowerChar(c) == LowerTable[c]

RECURSIVE Lower(_)
\* s.lower()
Lower(s) ==
  IF Len(s) = 0 THEN ""
  ELSE LowerChar(SubSeq(s, 1, 1)) \o Lower(SubSeq(s, 2, Len(s)))

\* s.startswith(p)
StartsWith(s, p) == Len(p) <= Len(s) /\ SubSeq(s, 1, Len(p)) = p

\* s.endswith(p)
EndsWith(s, p) == Len(p) <= Len(s) /\ SubSeq(s, Len(s) - Len(p) + 1, Len(s)) = p

\* p in s
Contains(s, p) ==
  \E i \in 0..(Len(s) - Len(p)) : SubSeq(s, i + 1, i + Len(p)) = p

RECURSIVE RStripSlash(_)
\* p.rstrip('/')
RStripSlash(p) ==
  IF Len(p) > 0 /\ SubSeq(p, Len(p), Len(p)) = "/"
  THEN RStripSlash(SubSeq(p, 1, Len(p) - 1))
  ELSE p

RECURSIVE StrLess(_, _)
\* a < b on str: by code point, a proper prefix first
StrLess(a, b) ==
  IF Len(b) = 0 THEN FALSE
  ELSE IF Len(a) = 0 THEN TRUE
  ELSE LET x == Ord(SubSeq(a, 1, 1))
           y == Ord(SubSeq(b, 1, 1))
       IN  IF x # y THEN x < y
           ELSE StrLess(SubSeq(a, 2, Len(a)), SubSeq(b, 2, Len(b)))

RECURSIVE Repeat(_, _)
\* s * n
Repeat(s, n) == IF n <= 0 THEN "" ELSE s \o Repeat(s, n - 1)

(***************************************************************************)
(* Paths.                                                                  *)
(***************************************************************************)
RECURSIVE Join(_)
\* the parts joined by the separator
Join(parts) ==
  IF Len(parts) = 0 THEN ""
  ELSE IF Len(parts) = 1 THEN parts[1]
  ELSE parts[1] \o "/" \o Join(Tail(parts))

\* str(Path(start_path) / parts): pathlib drops a root of "." from the string
PathStr(root, parts) ==
  IF Len(parts) = 0 THEN root
  ELSE IF root = "." THEN Join(parts)
  ELSE root \o "/" \o Join(parts)

\* path.name
Name(parts) == parts[Len(parts)]

\* path.parent
Parent(parts) == SubSeq(parts, 1, Len(parts) - 1)

RECURSIVE PartsLess(_, _)
\* Path.__lt__: the parts compared as tuples of strings
PartsLess(a, b) ==
  IF Len(b) = 0 THEN FALSE
  ELSE IF Len(a) = 0 THEN TRUE
  ELSE IF a[1] # b[1] THEN StrLess(a[1], b[1])
  ELSE PartsLess(Tail(a), Tail(b))

(***************************************************************************)
(* The rule set.                                                           *)
(***************************************************************************)
\* DEFAULT_IGNORE_PATTERNS, in the order of the source (duplicates included)
DEFAULT_IGNORE_PATTERNS ==
  <<
    ".git", ".svn", ".hg", ".bzr", "__pycache__", ".pytest_cache", "htmlcov",
    ".tox", ".venv", "venv", "env", "dist", "build", "*.egg-info", "eggs",
    ".pythonlibs", "site-packages", ".local/lib/python*",
    "pip-wheel-metadata", "poetry.lock", "node_modules", "bower_components",
    ".npm", ".cache", ".parcel-cache", ".webpack/build/", ".rollup-cache/",
    ".vite/build/", ".next/cache/", ".nuxt/cache/", ".output/cache/",
    ".yarn", ".pnp.*", "target/", "bin/", ".gradle/cache/",
    ".m2/repository/", "classes/", "out/", "build/", "META-INF/",
    "MANIFEST.MF", "*.iml", "*.iws", "*.ipr", ".idea", ".vscode", ".vs",
    ".settings", ".project", ".classpath", "*.swp", "*.swo", "*~",
    ".history/", ".sourcemaps/", ".DS_Store", ".AppleDouble", ".LSOverride",
    "Thumbs.db", "desktop.ini", "$RECYCLE.BIN/", "System Volume Information",
    ".Spotlight-V100", ".Trashes", "vendor/", "bower_components",
    "jspm_packages", "packages/", ".serverless/cache/", "coverage/",
    ".nyc_output/", ".sass-cache/", "*.css.map", "*.js.map", "*.log",
    "logs/", "log/", ".temp/", ".tmp/", "tmp/", "*.bak", "*.retry", "*.pyc",
    "*.pyo", "*.pyd", "*.so", "*.dll", "*.dylib", "*.class", "*.o", "*.ko",
    "*.obj", "*.exe", "*.pid", "yarn.lock", "package-lock.json",
    "pnpm-lock.yaml", "bun.lockb", "docs/_build/", "site/build/",
    ".docusaurus/build/", ".docker/cache/", ".github/actions/",
    ".gitlab/runners/", ".circleci/cache/", "coverage/", ".coverage",
    "coverage.xml", "nosetests.xml", ".hypothesis/cache/", ".conda/pkgs/",
    ".jupyter/cache/"
  >>

\* library_folders: shown, contents ignored
library_folders ==
  {
    "node_modules", "vendor", "bower_components", "packages",
    "site-packages", ".pythonlibs", "jspm_packages", ".git", "dist", "build",
    "target", "out", "bin", ".next", ".nuxt", ".output", "__pycache__",
    ".venv", "venv", "env", ".parcel-cache", ".webpack", ".rollup-cache"
  }

\* important_config_files: preserved in the root and its immediate subdirectories
important_config_files ==
  {
    "vite.config.js", "vite.config.ts", "webpack.config.js",
    "webpack.config.ts", "rollup.config.js", "rollup.config.ts",
    "next.config.js", "next.config.ts", "svelte.config.js",
    "svelte.config.ts", "nuxt.config.js", "nuxt.config.ts", "package.json",
    "composer.json", "cargo.toml", "go.mod", ".env", ".env.local",
    ".env.development", ".env.test", ".env.production", "tsconfig.json",
    "babel.config.js", "jest.config.js", "postcss.config.js"
  }

(***************************************************************************)
(* should_ignore, rule by rule.                                            *)
(***************************************************************************)
\* A variant of the walk that asks the path and its parent only
inside_library_folder_parent_only(parts) ==
  \E i \in 1..Len(parts) : i >= Len(parts) - 1 /\ Lower(parts[i]) \in library_folders

\* "current = path; while current != Path(start_path): ... current.parent":
\* the path itself or one of its ancestors below the root is a library folder
inside_library_folder(parts) ==
  \E i \in 1..Len(parts) : Lower(parts[i]) \in library_folders

\* A variant of the preservation whose second rule holds at every depth
\* from 2 on
preserved_config_any_depth(parts) ==
  LET depth == Len(parts)
      path_name_lower == Lower(Name(parts))
  IN  \/ depth = 1 /\ path_name_lower \in important_config_files
      \/ /\ depth >= 2
         /\ Lower(Name(Parent(parts))) \notin library_folders
         /\ path_name_lower \in important_config_files
      \/ /\ depth = 1
         /\ \/ StartsWith(path_name_lower, "config.")
            \/ EndsWith(path_name_lower, ".config.js")
            \/ EndsWith(path_name_lower, ".config.ts")
            \/ StartsWith(path_name_lower, ".env")

\* the preservation of config files in the root and in its immediate
\* non-library subdirectories, and of config.* and .env* files in the root
preserved_config(parts) ==
  LET depth == Len(parts)
      path_name_lower == Lower(Name(parts))
  IN  \/ depth = 1 /\ path_name_lower \in important_config_files
      \/ /\ depth = 2
         /\ Lower(Name(Parent(parts))) \notin library_folders
         /\ path_name_lower \in important_config_files
      \/ /\ depth = 1
         /\ \/ StartsWith(path_name_lower, "config.")
            \/ EndsWith(path_name_lower, ".config.js")
            \/ EndsWith(path_name_lower, ".config.ts")
            \/ StartsWith(path_name_lower, ".env")

\* one pattern of the generic match, against the whole path string
pattern_matches(pattern, path_str) ==
  \/ Contains(path_str, pattern)
  \/ EndsWith(path_str, RStripSlash(pattern))
  \/ StartsWith(pattern, "*.") /\ EndsWith(path_str, SubSeq(pattern, 2, Len(pattern)))

\* any(... for pattern in ignore_patterns)
matches_ignore_patterns(ignore_patterns, path_str) ==
  \E k \in 1..Len(ignore_patterns) : pattern_matches(ignore_patterns[k], path_str)

\* A variant of should_ignore that asks the generic patterns before the
\* preservation of config files
should_ignore_patterns_first(root, ignore_patterns, parts) ==
  LET path_str == PathStr(root, parts)
      path_name_lower == Lower(Name(parts))
      depth == Len(parts)
  IN  IF path_name_lower \in library_folders THEN depth > 1
      ELSE IF inside_library_folder(parts) THEN TRUE
      ELSE IF matches_ignore_patterns(ignore_patterns, path_str) THEN TRUE
      ELSE FALSE

\* A variant of should_ignore that shows a library folder down to depth 2
should_ignore_library_depth2(root, ignore_patterns, parts) ==
  LET path_str == PathStr(root, parts)
      path_name_lower == Lower(Name(parts))
      depth == Len(parts)
  IN  IF path_name_lower \in library_folders THEN depth > 2
      ELSE IF inside_library_folder(parts) THEN TRUE
      ELSE IF preserved_config(parts) THEN FALSE
      ELSE matches_ignore_patterns(ignore_patterns, path_str)

\* should_ignore(path) inside scan_directory(start_path, _, ignore_patterns, _).
\* Every path comes from Path(start_path).rglob('*'), so relative_to never
\* raises and the "except ValueError: return True" branch is not taken.
should_ignore(root, ignore_patterns, parts) ==
  LET path_str == PathStr(root, parts)
      path_name_lower == Lower(Name(parts))
      depth == Len(parts)
  IN  IF path_name_lower \in library_folders THEN depth > 1
      ELSE IF inside_library_folder(parts) THEN TRUE
      ELSE IF preserved_config(parts) THEN FALSE
      ELSE matches_ignore_patterns(ignore_patterns, path_str)

(***************************************************************************)
(* scan_directory.                                                         *)
(***************************************************************************)
\* The markers.  The two emoji lie outside the characters a string of this
\* language can hold: each is written as its Python escape.
dir_marker(emoji) == IF emoji THEN "\\U0001F4C1 " ELSE "[DIR] "

file_marker(emoji) == IF emoji THEN "\\U0001F4C4 " ELSE "[FILE] "

\* open(output_file, 'w'): creates the output file; it is an entry of the
\* tree when it lies below the scan root
open_output(tree, out_rel) ==
  IF out_rel = <<>> THEN tree
  ELSE {e \in tree : e.parts # out_rel} \cup {[parts |-> out_rel, is_dir |-> FALSE]}

\* Path(start_path).rglob('*'): every entry below the root
rglob(tree) == {e.parts : e \in tree}

RECURSIVE sorted_by_string(_)
\* A variant of the sort that compares the path strings, not the parts
sorted_by_string(S) ==
  IF S = {} THEN <<>>
  ELSE LET p == CHOOSE q \in S : TRUE
           lo == {q \in S : StrLess(Join(q), Join(p))}
           hi == S \ (lo \cup {p})
       IN  sorted_by_string(lo) \o <<p>> \o sorted_by_string(hi)

RECURSIVE sorted(_)
\* sorted(...) of a set of paths: ascending by Path.__lt__
sorted(S) ==
  IF S = {} THEN <<>>
  ELSE LET p == CHOOSE q \in S : TRUE
           lo == {q \in S : PartsLess(q, p)}
           hi == S \ (lo \cup {p})
       IN  sorted(lo) \o <<p>> \o sorted(hi)

\* path.is_dir()
is_dir(tree, parts) == \E e \in tree : e.parts = parts /\ e.is_dir

\* A variant that enumerates the tree before the output file is opened
enumerate_before_open(tree, out_rel) == sorted(rglob(tree))

\* "with open(output_file, 'w') as f: ... for path in sorted(rglob('*'))":
\* the file is opened, and so created, before the tree is enumerated
enumerate(tree, out_rel) == sorted(rglob(open_output(tree, out_rel)))

\* the two header writes: the title, the rule and a blank line
header(root) == <<"File structure for: " \o root, Repeat("=", 50), "">>

\* A variant of the line that indents by the number of parts
entry_line_full_depth(tree, emoji, parts) ==
  LET depth == Len(parts)
      indent == Repeat("    ", depth)
      marker == IF is_dir(tree, parts) THEN dir_marker(emoji) ELSE file_marker(emoji)
  IN  indent \o marker \o Name(parts)

\* f"{indent}{marker}{rel_path.name}" of one entry that is not ignored
entry_line(tree, emoji, parts) ==
  LET depth == Len(parts) - 1
      indent == Repeat("    ", depth)
      marker == IF is_dir(tree, parts) THEN dir_marker(emoji) ELSE file_marker(emoji)
  IN  indent \o marker \o Name(parts)

\* "if ignore_patterns is None: ignore_patterns = DEFAULT_IGNORE_PATTERNS";
\* the argument is {} for None and {list} for a list
effective_patterns(ignore_arg) ==
  IF ignore_arg = {} THEN DEFAULT_IGNORE_PATTERNS
  ELSE CHOOSE l \in ignore_arg : TRUE

\* scan_directory(start_path, output_file, ignore_patterns, use_emoji) on a
\* tree: the tree afterwards, the lines written and the entries they are of
scan_directory(root, out_rel, ignore_arg, emoji, tree) ==
  LET ignore_patterns == effective_patterns(ignore_arg)
      paths == enumerate(tree, out_rel)
      after == open_output(tree, out_rel)
      kept == SelectSeq(paths, LAMBDA p : ~should_ignore(root, ignore_patterns, p))
  IN  [fs |-> after,
       out |-> header(root) \o [i \in 1..Len(kept) |-> entry_line(after, emoji, kept[i])],
       listed |-> kept]

\* A variant of the merge in which the caller's patterns replace the defaults
merge_patterns_replace(ignore) ==
  IF ignore = <<>> THEN DEFAULT_IGNORE_PATTERNS ELSE ignore

\* __main__: "ignore_patterns = DEFAULT_IGNORE_PATTERNS.copy();
\* if args.ignore: ignore_patterns.extend(args.ignore)"
merge_patterns(ignore) == DEFAULT_IGNORE_PATTERNS \o ignore

(***************************************************************************)
(* The inputs of the model.                                                *)
(***************************************************************************)
\* Scan roots: the default, one no pattern occurs in, one that holds "tmp/"
Roots == {".", "/work/app", "/tmp/app"}

\* Directory names: a library folder (in upper case), a directory a pattern
\* hides by its name ("logs/"), one a "*.ext" pattern hides, and a plain one
DirNames == {"Build", "logs", "pkg.egg-info", "src"}

\* File names: two preserved config names (the second holds the pattern
\* "env"), a "*.config.js" name, and a plain one
FileNames == {"package.json", ".env.production", "foo.config.js", "src-old"}

Names == DirNames \cup FileNames

\* A file of the root alone: a "config.*" name that the pattern "*.log" hits
RootFileNames == FileNames \cup {"config.log"}

\* The --ignore lists
IgnoreArgs == {<<>>, <<"foo">>}

\* The default --output, below a root that is the working directory
OutputName == "file_structure.txt"

\* The paths of at most MaxDepth names: directories down to a directory or a file
AllPaths ==
  UNION {{p \in [1..d -> Names] : \A i \in 1..(d - 1) : p[i] \in DirNames} :
           d \in 1..MaxDepth}

\* The paths at or below a path
Below(prefix) ==
  {p \in AllPaths : Len(p) >= Len(prefix) /\ SubSeq(p, 1, Len(prefix)) = prefix}

\* The entries of a set of paths: a directory name makes a directory
Entries(paths) == {[parts |-> p, is_dir |-> (Name(p) \in DirNames)] : p \in paths}

\* The trees: the root holds the files of RootFileNames and one directory;
\* that directory holds the files of FileNames and one directory, with all
\* that lies under it
Trees ==
  {Entries({<<f>> : f \in RootFileNames} \cup {<<d>>}
             \cup {<<d, f>> : f \in FileNames} \cup Below(<<d, n>>)) :
     d \in DirNames, n \in DirNames}

(***************************************************************************)
(* The state machine.                                                      *)
(***************************************************************************)
Init ==
  /\ start_path \in Roots
  /\ output_rel \in {<<>>, <<OutputName>>}
  /\ args_ignore \in IgnoreArgs
  /\ use_emoji \in BOOLEAN
  /\ fs \in Trees
  /\ runs = 0
  /\ out = <<>>
  /\ prev_out = <<>>
  /\ listed = <<>>

\* python scan_files.py --dir .. --output .. [--ignore ..] [--emoji]: the
\* patterns are merged and scan_directory runs once
Main ==
  /\ runs < MaxRuns
  /\ \E r \in {scan_directory(start_path, output_rel, {merge_patterns(args_ignore)},
                               use_emoji, fs)} :
        /\ fs' = r.fs
        /\ out' = r.out
        /\ listed' = r.listed
  /\ prev_out' = out
  /\ runs' = runs + 1
  /\ UNCHANGED <<start_path, output_rel, args_ignore, use_emoji>>

Next == Main

Spec == Init /\ [][Next]_vars

(***************************************************************************)
(* What the claims speak of.                                               *)
(***************************************************************************)
\* A scan has completed: out and listed are the result of the last one
Scanned == runs >= 1

\* The paths of the tree
TreePaths == rglob(fs)

\* VISIBLE: the last scan wrote a line for the path
Visible(p) == \E i \in 1..Len(listed) : listed[i] = p

\* The entry's name is an opaque (library) directory name
OpaqueName(p) == Lower(Name(p)) \in library_folders

\* One of the path's proper ancestors below the root has an opaque name
OpaqueAncestor(p) == \E i \in 1..(Len(p) - 1) : Lower(p[i]) \in library_folders

\* The pattern list of the scans of this run of the program
RunPatterns == DEFAULT_IGNORE_PATTERNS \o args_ignore

\* The path string satisfies a generic pattern of the run
PatternHit(p) == matches_ignore_patterns(RunPatterns, PathStr(start_path, p))

\* The name is one the root-level preservation covers
RootPreservedName(n) ==
  \/ Lower(n) \in important_config_files
  \/ StartsWith(Lower(n), "config.")
  \/ EndsWith(Lower(n), ".config.js")
  \/ EndsWith(Lower(n), ".config.ts")
  \/ StartsWith(Lower(n), ".env")

(***************************************************************************)
(* C1: an entry of the root with an opaque name is listed, and nothing     *)
(* below it is, whatever its name and depth.                               *)
(***************************************************************************)
C1_OpaqueShownContentsHidden ==
  Scanned =>
    \A p \in TreePaths :
      (Len(p) = 1 /\ OpaqueName(p)) =>
        /\ Visible(p)
        /\ \A q \in TreePaths : (Len(q) > 1 /\ q[1] = p[1]) => ~Visible(q)

\* an opaque directory of the root is listed; a preserved config name lies
\* two levels below it and is not
C1_Witness ==
  /\ Scanned
  /\ \E p \in TreePaths :
       /\ Len(p) = 1 /\ OpaqueName(p) /\ Visible(p)
       /\ \E q \in TreePaths :
            /\ Len(q) = 3 /\ q[1] = p[1] /\ ~OpaqueName(<<q[2]>>)
            /\ Name(q) = "package.json" /\ ~Visible(q)

(***************************************************************************)
(* C2: an entry of the root whose name is a preserved config name, or      *)
(* starts with "config." or ".env", or ends with ".config.js" or           *)
(* ".config.ts", is listed, also when a generic pattern hits its path.     *)
(***************************************************************************)
C2_RootConfigPreserved ==
  Scanned =>
    \A p \in TreePaths : (Len(p) = 1 /\ RootPreservedName(p[1])) => Visible(p)

\* ".env.production" and "config.log" in the root are listed although the
\* patterns "env" and "*.log" hit them
C2_Witness ==
  /\ Scanned
  /\ \A p \in {<<".env.production">>, <<"config.log">>} :
       p \in TreePaths /\ PatternHit(p) /\ Visible(p)
  /\ Contains(PathStr(start_path, <<".env.production">>), "env")
  /\ EndsWith(PathStr(start_path, <<"config.log">>), ".log")

(***************************************************************************)
(* C3, as claimed: with the additional pattern "foo" every path whose path *)
(* string holds "foo" is hidden, and every path the default patterns alone *)
(* hide is hidden.                                                         *)
(***************************************************************************)
C3_Original ==
  (Scanned /\ args_ignore = <<"foo">>) =>
    \A p \in TreePaths :
      /\ Contains(PathStr(start_path, p), "foo") => ~Visible(p)
      /\ should_ignore(start_path, DEFAULT_IGNORE_PATTERNS, p) => ~Visible(p)

(***************************************************************************)
(* C3, amended: with the additional pattern "foo" every path whose path    *)
(* string holds "foo" is hidden unless an earlier rule shows it (an opaque *)
(* name in the root, a preserved config file), and every path the default  *)
(* patterns alone hide is hidden.                                          *)
(***************************************************************************)
C3_PatternsAdditive ==
  (Scanned /\ args_ignore = <<"foo">>) =>
    \A p \in TreePaths :
      /\ ( /\ Contains(PathStr(start_path, p), "foo")
           /\ ~(Len(p) = 1 /\ OpaqueName(p))
           /\ ~preserved_config(p) ) => ~Visible(p)
      /\ should_ignore(start_path, DEFAULT_IGNORE_PATTERNS, p) => ~Visible(p)

\* "foo" hides a path no default pattern hides, and a path the defaults hide
\* stays hidden
C3_Witness ==
  /\ Scanned
  /\ args_ignore = <<"foo">>
  /\ \E p \in TreePaths :
       /\ Contains(PathStr(start_path, p), "foo")
       /\ ~should_ignore(start_path, DEFAULT_IGNORE_PATTERNS, p)
       /\ ~Visible(p)
  /\ \E p \in TreePaths :
       /\ ~Contains(PathStr(start_path, p), "foo")
       /\ ~OpaqueName(p) /\ ~OpaqueAncestor(p)
       /\ should_ignore(start_path, DEFAULT_IGNORE_PATTERNS, p)
       /\ ~Visible(p)

C5_RootIndependent ==
  Scanned =>
    \A r \in Roots : \A p \in TreePaths :
      Visible(p) <=> ~should_ignore(r, RunPatterns, p)

(***************************************************************************)
(* C6: a preserved config name is listed at depth 2 under a parent that is *)
(* not an opaque directory, also when a generic pattern hits its path; it  *)
(* is hidden at depth 2 under an opaque parent; and from depth 3 on the    *)
(* name exempts from nothing: the entry is listed iff no opaque-name rule  *)
(* and no generic pattern hides it.                                        *)
(***************************************************************************)
C6_ConfigDepth ==
  Scanned =>
    \A p \in TreePaths :
      Lower(Name(p)) \in important_config_files =>
        /\ (Len(p) = 2 /\ ~OpaqueAncestor(p)) => Visible(p)
        /\ (Len(p) = 2 /\ OpaqueAncestor(p)) => ~Visible(p)
        /\ Len(p) >= 3 =>
             (Visible(p) <=> (~OpaqueAncestor(p) /\ ~PatternHit(p)))

\* at depth 2 a preserved name is listed although a pattern hits its path,
\* and at depth 3 the same name under the same directories is hidden by it
C6_Witness ==
  /\ Scanned
  /\ \E p, q \in TreePaths :
       /\ Len(p) = 2 /\ Len(q) = 3 /\ q[1] = p[1]
       /\ Name(p) = ".env.production" /\ Name(q) = ".env.production"
       /\ ~OpaqueAncestor(q)
       /\ PatternHit(p) /\ Visible(p)
       /\ PatternHit(q) /\ ~Visible(q)

(***************************************************************************)
(* C7: a second scan with the same arguments of the tree the first scan    *)
(* left writes the same output, also when the output file lies in the tree.*)
(***************************************************************************)
C7_Idempotent == runs >= 2 => out = prev_out

\* two scans have run, the output file lies below the root and has a line
C7_Witness ==
  /\ runs >= 2
  /\ output_rel # <<>>
  /\ Visible(output_rel)
  /\ Len(out) > 4

C9_OpaqueOnlyInRoot ==
  Scanned =>
    \A p \in TreePaths : OpaqueName(p) => (Visible(p) <=> Len(p) = 1)

\* "src/Build": no opaque ancestor, no pattern hits it, and it is hidden
C9_Witness ==
  /\ Scanned
  /\ \E p \in TreePaths :
       /\ Len(p) = 2 /\ OpaqueName(p) /\ ~OpaqueAncestor(p)
       /\ ~PatternHit(p)
       /\ Visible(<<p[1]>>)
       /\ ~Visible(p)

(***************************************************************************)
(* C10: every listed entry below the first level has its parent directory  *)
(* listed.                                                                 *)
(***************************************************************************)
C10_ParentListed ==
  Scanned =>
    \A i \in 1..Len(listed) : Len(listed[i]) > 1 => Visible(Parent(listed[i]))

====
